---- MODULE Spec2Model ----
(***************************************************************************)
(* remove-all-secrets.py: a filter that reads the whole of standard input, *)
(* applies four re.sub rules to the buffer one after the other and writes  *)
(* the buffer to standard output.                                          *)
(*                                                                         *)
(* Text is a sequence of one-character strings, so that the patterns are   *)
(* matched character by character as the regex engine matches them.        *)
(***************************************************************************)
EXTENDS Integers, Sequences, FiniteSets, TLC

VARIABLES
  stdin,    \* the text waiting on standard input
  content,  \* the buffer `content` of the script
  stdout,   \* the sequence of writes made to standard output
  pc,       \* the statement the script is about to run
  applied   \* the re.sub calls made so far, in order (history)

vars == <<stdin, content, stdout, pc, applied>>

(***************************************************************************)
(* The literals of the four re.sub calls.  In the patterns "\." and "\|"   *)
(* are the literal characters "." and "|".                                 *)
(***************************************************************************)

\* anthropicApiKey: process.env.ANTHROPIC_API_KEY || 'sk-ant-
Head1 ==
  <<"a","n","t","h","r","o","p","i","c","A","p","i","K","e","y",":"," ","p","r","o","c","e","s",
    "s",".","e","n","v",".","A","N","T","H","R","O","P","I","C","_","A","P","I","_","K","E","Y",
    " ","|","|"," ","'","s","k","-","a","n","t","-">>

\* ',
Tail1 ==
  <<"'",",">>

\* anthropicApiKey: process.env.ANTHROPIC_API_KEY || '',
Repl1 ==
  <<"a","n","t","h","r","o","p","i","c","A","p","i","K","e","y",":"," ","p","r","o","c","e","s",
    "s",".","e","n","v",".","A","N","T","H","R","O","P","I","C","_","A","P","I","_","K","E","Y",
    " ","|","|"," ","'","'",",">>

\* openaiApiKey: process.env.OPENAI_API_KEY || 'sk-proj-
Head2 ==
  <<"o","p","e","n","a","i","A","p","i","K","e","y",":"," ","p","r","o","c","e","s","s",".","e",
    "n","v",".","O","P","E","N","A","I","_","A","P","I","_","K","E","Y"," ","|","|"," ","'","s",
    "k","-","p","r","o","j","-">>

\* ',
Tail2 ==
  <<"'",",">>

\* Repl2 with the line's comma left out.
Repl2NoComma ==
  <<"o","p","e","n","a","i","A","p","i","K","e","y",":"," ","p","r","o","c","e","s","s",".","e",
    "n","v",".","O","P","E","N","A","I","_","A","P","I","_","K","E","Y"," ","|","|"," ","'","'">>

\* openaiApiKey: process.env.OPENAI_API_KEY || '',
Repl2 ==
  <<"o","p","e","n","a","i","A","p","i","K","e","y",":"," ","p","r","o","c","e","s","s",".","e",
    "n","v",".","O","P","E","N","A","I","_","A","P","I","_","K","E","Y"," ","|","|"," ","'","'",
    ",">>

\* OPENAI_API_KEY
Name3 ==
  <<"O","P","E","N","A","I","_","A","P","I","_","K","E","Y">>

\* =
Eq3 ==
  <<"=">>

\* 'sk-proj-
Quote3 ==
  <<"'","s","k","-","p","r","o","j","-">>

\* OPENAI_API_KEY=os.environ.get('OPENAI_API_KEY', '')
Repl3 ==
  <<"O","P","E","N","A","I","_","A","P","I","_","K","E","Y","=","o","s",".","e","n","v","i","r",
    "o","n",".","g","e","t","(","'","O","P","E","N","A","I","_","A","P","I","_","K","E","Y","'",
    ","," ","'","'",")">>

\* const apiKey = 'sk-proj-
Head4 ==
  <<"c","o","n","s","t"," ","a","p","i","K","e","y"," ","="," ","'","s","k","-","p","r","o","j",
    "-">>

\* ';
Tail4 ==
  <<"'",";">>

\* Repl4 with the declaration's semicolon left out.
Repl4NoSemicolon ==
  <<"c","o","n","s","t"," ","a","p","i","K","e","y"," ","="," ","p","r","o","c","e","s","s",".",
    "e","n","v",".","O","P","E","N","A","I","_","A","P","I","_","K","E","Y"," ","|","|"," ","'",
    "'">>

\* const apiKey = process.env.OPENAI_API_KEY || '';
Repl4 ==
  <<"c","o","n","s","t"," ","a","p","i","K","e","y"," ","="," ","p","r","o","c","e","s","s",".",
    "e","n","v",".","O","P","E","N","A","I","_","A","P","I","_","K","E","Y"," ","|","|"," ","'",
    "'",";">>

(***************************************************************************)
(* The regular expressions.  A pattern is a sequence of elements: a        *)
(* literal run of characters, "\s*" or "[^']+".                            *)
(***************************************************************************)
Lit(text) == [kind |-> "lit", text |-> text]
Spaces == [kind |-> "spaces", text |-> <<>>]
NotQuotes == [kind |-> "notquotes", text |-> <<>>]

\* Pattern 1 written as a copy of pattern 2.
Pat1Pasted == <<Lit(Head2), NotQuotes, Lit(Tail2)>>

\* r"anthropicApiKey: process\.env\.ANTHROPIC_API_KEY \|\| 'sk-ant-[^']+',"
Pat1 == <<Lit(Head1), NotQuotes, Lit(Tail1)>>

\* r"openaiApiKey: process\.env\.OPENAI_API_KEY \|\| 'sk-proj-[^']+',"
Pat2 == <<Lit(Head2), NotQuotes, Lit(Tail2)>>

\* r"OPENAI_API_KEY\s*=\s*'sk-proj-[^']+"   (no closing quote in the pattern)
Pat3 == <<Lit(Name3), Spaces, Lit(Eq3), Spaces, Lit(Quote3), NotQuotes>>

\* r"const apiKey = 'sk-proj-[^']+';"
Pat4 == <<Lit(Head4), NotQuotes, Lit(Tail4)>>

\* The characters "\s" matches (those of them a TLA+ string can hold; the
\* engine's "\s" takes the vertical tab and the other Unicode spaces too).
IsSpace(c) == c \in {" ", "\t", "\n", "\r", "\f"}

\* Whether character c is in the class of a repeated element: "\s" or "[^']".
\* Neither class excludes the line feed.
InClass(kind, c) == IF kind = "spaces" THEN IsSpace(c) ELSE c # "'"

\* The position after the longest run of class characters that starts at i.
RECURSIVE RunEnd(_, _, _)
RunEnd(kind, s, i) ==
  IF i <= Len(s) /\ InClass(kind, s[i]) THEN RunEnd(kind, s, i + 1) ELSE i

\* The position after element e matched at position i of s, or 0 when it does
\* not match there.  The repeated elements are greedy; each is followed in its
\* pattern by a character outside its class (or by the pattern's end), so
\* giving characters back never makes a failed match succeed and the longest
\* run is the run the engine settles on.
MatchElem(e, s, i) ==
  CASE e.kind = "lit" ->
         IF i + Len(e.text) - 1 <= Len(s)
            /\ \A j \in 1..Len(e.text) : s[i + j - 1] = e.text[j]
         THEN i + Len(e.text) ELSE 0
    [] e.kind = "spaces" -> RunEnd("spaces", s, i)
    [] e.kind = "notquotes" ->
         IF i <= Len(s) /\ s[i] # "'" THEN RunEnd("notquotes", s, i + 1) ELSE 0

\* The position after a match of pat[k..] at position i of s, or 0.
RECURSIVE MatchFrom(_, _, _, _)
MatchFrom(pat, k, s, i) ==
  IF k > Len(pat) THEN i
  ELSE LET j == MatchElem(pat[k], s, i)
       IN IF j = 0 THEN 0 ELSE MatchFrom(pat, k + 1, s, j)

\* Whether pat matches at position k of s.  Every pattern starts with a
\* literal, whose first character is looked at first.
StartsAt(pat, s, k) == s[k] = pat[1].text[1] /\ MatchFrom(pat, 1, s, k) # 0

\* The matches re.sub replaces: the leftmost non-overlapping matches of pat in
\* s from position i on, each as <<first position, position after the last>>.
\* The scan takes the first position at or after i where pat matches and goes
\* on from the end of that match.
RECURSIVE Matches(_, _, _)
Matches(pat, s, i) ==
  LET starts == {k \in i..Len(s) : StartsAt(pat, s, k)}
  IN IF starts = {} THEN <<>>
     ELSE LET k == CHOOSE a \in starts : \A b \in starts : a <= b
              j == MatchFrom(pat, 1, s, k)
          IN <<<<k, j>>>> \o Matches(pat, s, j)

\* s with the matches ms[k..] replaced by repl, from position pos on.
RECURSIVE Build(_, _, _, _, _)
Build(s, ms, k, repl, pos) ==
  IF k > Len(ms) THEN SubSeq(s, pos, Len(s))
  ELSE SubSeq(s, pos, ms[k][1] - 1) \o repl \o Build(s, ms, k + 1, repl, ms[k][2])

\* re.sub(pat, repl, s) with count unset: every match is replaced.
ReSub(pat, repl, s) == Build(s, Matches(pat, s, 1), 1, repl, 1)

\* re.sub(pat, repl, s, count=1): the first match alone is replaced.
ReSubOnce(pat, repl, s) ==
  LET ms == Matches(pat, s, 1)
  IN Build(s, IF ms = <<>> THEN <<>> ELSE <<ms[1]>>, 1, repl, 1)

\* Rules 1 and 2 with count=1.
Rule1Once(s) == ReSubOnce(Pat1, Repl1, s)

Rule2Once(s) == ReSubOnce(Pat2, Repl2, s)

\* The four substitutions of the script.
Rule1(s) == ReSub(Pat1, Repl1, s)

Rule2(s) == ReSub(Pat2, Repl2, s)

Rule3(s) == ReSub(Pat3, Repl3, s)

Rule4(s) == ReSub(Pat4, Repl4, s)

\* Rule n applied to s.
Rule(n, s) ==
  CASE n = 1 -> Rule1(s) [] n = 2 -> Rule2(s) [] n = 3 -> Rule3(s) [] n = 4 -> Rule4(s)

\* The whole transform: the four rules in the script's order.
redact(s) == Rule4(Rule3(Rule2(Rule1(s))))

(***************************************************************************)
(* The inputs: every text made of at most MaxFrags fragments.              *)
(***************************************************************************)
MaxFrags == 3

\* The key body of the fragments.
Body == <<"Z">>

\* The fragments: the complete idioms 1, 2 and 4; idiom 3 up to its closing
\* quote; a quote, a line feed, a space, a body character and a comma; and
\* idiom 1 up to its body.
Frags ==
  << Head1 \o Body \o Tail1,
     Head2 \o Body \o Tail2,
     Name3 \o <<" ">> \o Eq3 \o <<" ">> \o Quote3 \o Body,
     Head4 \o Body \o Tail4,
     <<"'">>,
     <<"\n">>,
     <<" ">>,
     <<"Z">>,
     <<",">>,
     Head1 >>

\* The first n fragments that f picks, joined.
RECURSIVE Concat(_, _)
Concat(f, n) == IF n = 0 THEN <<>> ELSE Concat(f, n - 1) \o Frags[f[n]]

Inputs == {Concat(f, n) : f \in [1..MaxFrags -> 1..Len(Frags)], n \in 0..MaxFrags}

(***************************************************************************)
(* The script.                                                             *)
(***************************************************************************)
Init ==
  /\ stdin \in Inputs
  /\ content = <<>>
  /\ stdout = <<>>
  /\ pc = "read"
  /\ applied = <<>>

\* content = sys.stdin.read()
Read ==
  /\ pc = "read"
  /\ content' = stdin
  /\ pc' = "rule1"
  /\ UNCHANGED <<stdin, stdout, applied>>

\* sys.stdin.read() raises: the script ends with the exception.
ReadFail ==
  /\ pc = "read"
  /\ pc' = "failed"
  /\ UNCHANGED <<stdin, content, stdout, applied>>

\* content = re.sub(<pattern n>, <replacement n>, content), n = 1..4
ApplyRule1 ==
  /\ pc = "rule1"
  /\ content' = Rule1(content)
  /\ applied' = Append(applied, 1)
  /\ pc' = "rule2"
  /\ UNCHANGED <<stdin, stdout>>

\* Rule 2 applied to the input as read, not to the buffer rule 1 left.
ApplyRule2OnInput ==
  /\ pc = "rule2"
  /\ content' = Rule2(stdin)
  /\ applied' = Append(applied, 2)
  /\ pc' = "rule3"
  /\ UNCHANGED <<stdin, stdout>>

ApplyRule2 ==
  /\ pc = "rule2"
  /\ content' = Rule2(content)
  /\ applied' = Append(applied, 2)
  /\ pc' = "rule3"
  /\ UNCHANGED <<stdin, stdout>>

ApplyRule3 ==
  /\ pc = "rule3"
  /\ content' = Rule3(content)
  /\ applied' = Append(applied, 3)
  /\ pc' = "rule4"
  /\ UNCHANGED <<stdin, stdout>>

ApplyRule4 ==
  /\ pc = "rule4"
  /\ content' = Rule4(content)
  /\ applied' = Append(applied, 4)
  /\ pc' = "write"
  /\ UNCHANGED <<stdin, stdout>>

\* sys.stdout.write(content)
Write ==
  /\ pc = "write"
  /\ stdout' = Append(stdout, content)
  /\ pc' = "done"
  /\ UNCHANGED <<stdin, content, applied>>

Next ==
  \/ Read
  \/ ReadFail
  \/ ApplyRule1
  \/ ApplyRule2
  \/ ApplyRule3
  \/ ApplyRule4
  \/ Write

Spec == Init /\ [][Next]_vars

(***************************************************************************)
(* The same script run on single lines: one idiom with an indentation, a   *)
(* key body and what follows the idiom on the line.                        *)
(***************************************************************************)
MaxBody == 2

BodyChars == {"Z", "9", " ", "\n"}

Bodies == UNION {[1..n -> BodyChars] : n \in 1..MaxBody}

Indents == {<<>>, <<" ">>, <<" ", " ">>, <<"\t">>}

Gaps == {<<>>, <<" ">>, <<"\n">>}

Trails == {<<>>, <<"\n">>, <<" ", "#">>}

Line1(ind, b, t) == ind \o Head1 \o b \o Tail1 \o t

Line2(ind, b, t) == ind \o Head2 \o b \o Tail2 \o t

Line3(ind, g1, g2, b, t) ==
  ind \o Name3 \o g1 \o Eq3 \o g2 \o Quote3 \o b \o <<"'">> \o t

Line4(ind, b, t) == ind \o Head4 \o b \o Tail4 \o t

LineInputs ==
  {Line1(ind, b, t) : ind \in Indents, b \in Bodies, t \in Trails}
  \cup {Line2(ind, b, t) : ind \in Indents, b \in Bodies, t \in Trails}
  \cup {Line3(ind, g[1], g[2], b, t) :
          ind \in Indents, g \in Gaps \X Gaps, b \in Bodies, t \in Trails}
  \cup {Line4(ind, b, t) : ind \in Indents, b \in Bodies, t \in Trails}

InitLine ==
  /\ stdin \in LineInputs
  /\ content = <<>>
  /\ stdout = <<>>
  /\ pc = "read"
  /\ applied = <<>>

SpecLine == InitLine /\ [][Next]_vars

(***************************************************************************)
(* What the properties below speak of.                                     *)
(***************************************************************************)
Pat(n) == CASE n = 1 -> Pat1 [] n = 2 -> Pat2 [] n = 3 -> Pat3 [] n = 4 -> Pat4

Repl(n) == CASE n = 1 -> Repl1 [] n = 2 -> Repl2 [] n = 3 -> Repl3 [] n = 4 -> Repl4

\* The text written to standard output (once the script is done).
Out == stdout[1]

HasChar(s, c) == \E i \in 1..Len(s) : s[i] = c

\* The four idioms as written down for a reader: each is a quoted key with
\* its closing quote, so idiom 3 is  OPENAI_API_KEY = 'sk-proj-...'  .
Idiom(n) == IF n = 3 THEN Pat3 \o <<Lit(<<"'">>)>> ELSE Pat(n)

\* Position i of s lies inside an instance of one of the four idioms.
InIdiom(s, i) ==
  \E n \in 1..4, a \in 1..i :
    StartsAt(Idiom(n), s, a) /\ i < MatchFrom(Idiom(n), 1, s, a)

\* No instance of any of the four idioms anywhere in s.
NoIdiom(s) == \A n \in 1..4, a \in 1..Len(s) : ~StartsAt(Idiom(n), s, a)

\* The key bodies of the inputs of Spec are made of this character, which is
\* in no pattern and no replacement.
Secret == "Z"

\* C1: secret removal.  When every key body of the input stands inside an
\* instance of one of the four idioms, the output contains no key body.
C1_SecretRemoval ==
  pc = "done" =>
    ((\A i \in 1..Len(stdin) : stdin[i] = Secret => InIdiom(stdin, i))
       => ~HasChar(Out, Secret))

\* C4: non-matching passthrough.  An input that contains none of the four
\* idioms is written out unchanged.
C4_Passthrough == pc = "done" /\ NoIdiom(stdin) => Out = stdin

\* C6: no match spans a line boundary.  The text a rule is about to replace
\* holds no line feed.
C6_SingleLine ==
  \A n \in 1..4 :
    pc = <<"rule1", "rule2", "rule3", "rule4">>[n] =>
      LET ms == Matches(Pat(n), content, 1)
      IN \A k \in 1..Len(ms) : ~HasChar(SubSeq(content, ms[k][1], ms[k][2] - 1), "\n")

\* C2: rule 3 consumes the whole quoted key.  The line
\* OPENAI_API_KEY = 'sk-proj-<body>' followed by t becomes the lookup
\* followed by t, with nothing left of the quoted value.
C2_Rule3WholeKey ==
  pc = "done" =>
    \A g \in Gaps \X Gaps, b \in Bodies, t \in Trails :
      stdin = Line3(<<>>, g[1], g[2], b, t) => Out = Repl3 \o t

RulePc == <<"rule1", "rule2", "rule3", "rule4">>

\* s after the first k rules of the script.
RECURSIVE After(_, _)
After(k, s) == IF k = 0 THEN s ELSE Rule(k, After(k - 1, s))

\* C9: pipeline ordering.  Nothing is applied or written before the input is
\* read; rule k runs on the output of rules 1..k-1, once, in the order 1, 2,
\* 3, 4; standard output is written only after rule 4, with the buffer rule 4
\* left; a failed read writes nothing.
C9_PipelineOrder ==
  /\ pc \in {"read", "failed"} => applied = <<>> /\ content = <<>> /\ stdout = <<>>
  /\ \A k \in 1..4 :
       pc = RulePc[k] =>
         /\ applied = SubSeq(<<1, 2, 3, 4>>, 1, k - 1)
         /\ content = After(k - 1, stdin)
         /\ stdout = <<>>
  /\ pc = "write" =>
       applied = <<1, 2, 3, 4>> /\ content = After(4, stdin) /\ stdout = <<>>
  /\ pc = "done" => applied = <<1, 2, 3, 4>> /\ stdout = <<After(4, stdin)>>
  /\ pc \in {"read", "failed", "rule1", "rule2", "rule3", "rule4", "write", "done"}

\* A run that read its input, applied the four rules to a text they change
\* and wrote the result.
C9_Witness ==
  pc = "done" /\ applied = <<1, 2, 3, 4>> /\ stdout = <<content>> /\ content # stdin

\* C3: idempotence.  The output of a pass is left as it is by a second pass,
\* and no rule finds a match in it.
C3_Idempotent ==
  pc = "done" =>
    /\ redact(Out) = Out
    /\ \A n \in 1..4 : Matches(Pat(n), Out, 1) = <<>>

\* A first pass that replaced matches of rule 2 and of rule 3 in one text.
C3_Witness ==
  /\ pc = "done"
  /\ Matches(Pat2, stdin, 1) # <<>>
  /\ Matches(Pat3, stdin, 1) # <<>>
  /\ redact(Out) = Out
  /\ Out # stdin

\* The total length of the matches ms.
RECURSIVE SumLen(_, _)
SumLen(ms, k) == IF k = 0 THEN 0 ELSE SumLen(ms, k - 1) + (ms[k][2] - ms[k][1])

\* C10: global substitution.  The step of rule n replaces every match of its
\* pattern in the buffer: none is left after it, and the buffer's length
\* changes by one replacement for each match.
C10_GlobalSubstitution ==
  [][\A n \in 1..4 :
       pc = RulePc[n] =>
         LET ms == Matches(Pat(n), content, 1)
         IN /\ Matches(Pat(n), content', 1) = <<>>
            /\ Len(content') = Len(content) - SumLen(ms, Len(ms)) + Len(ms) * Len(Repl(n))]_vars

\* Rule 1 has run on a buffer that held two or more instances of its idiom
\* and has left none.
C10_Witness ==
  /\ pc = "rule2"
  /\ Len(Matches(Pat1, stdin, 1)) >= 2
  /\ Matches(Pat1, content, 1) = <<>>

\* The position of the first quote of s at or after position i (Len(s) + 1
\* when there is none).
RECURSIVE FirstQuote(_, _)
FirstQuote(s, i) == IF i <= Len(s) /\ s[i] # "'" THEN FirstQuote(s, i + 1) ELSE i

\* The match m of s without its secret: what stands between the opening
\* quote of the key and its closing quote is taken out, the rest is kept.
KeepSyntax(s, m) ==
  LET q == FirstQuote(s, m[1])
      q2 == FirstQuote(s, q + 1)
  IN SubSeq(s, m[1], q) \o SubSeq(s, q2, m[2] - 1)

\* =os.environ.get('OPENAI_API_KEY', '')
Lookup3 ==
  <<"=","o","s",".","e","n","v","i","r","o","n",".","g","e","t","(","'","O","P","E","N","A","I",
    "_","A","P","I","_","K","E","Y","'",","," ","'","'",")">>

\* process.env.OPENAI_API_KEY || 
Lookup4 ==
  <<"p","r","o","c","e","s","s",".","e","n","v",".","O","P","E","N","A","I","_","A","P","I","_",
    "K","E","Y"," ","|","|"," ">>

\* What the step of rule n puts in the place of the match m of s.  Rules 1
\* and 2 take the secret out and keep the rest of the match.  Rule 4 does the
\* same and puts the lookup before the emptied quotes.  Rule 3 keeps the
\* variable's name alone and writes its lookup after it.
Rewritten(n, s, m) ==
  CASE n \in {1, 2} -> KeepSyntax(s, m)
    [] n = 3 -> SubSeq(s, m[1], m[1] + Len(Name3) - 1) \o Lookup3
    [] n = 4 ->
         LET q == FirstQuote(s, m[1])
         IN SubSeq(s, m[1], q - 1) \o Lookup4 \o KeepSyntax(s, <<q, m[2]>>)

\* s from position pos on, with each match ms[k..] rewritten: as Rewritten
\* says when exact is FALSE, with only its secret taken out when it is TRUE.
RECURSIVE Rebuilt(_, _, _, _, _, _)
Rebuilt(exact, n, s, ms, k, pos) ==
  IF k > Len(ms) THEN SubSeq(s, pos, Len(s))
  ELSE SubSeq(s, pos, ms[k][1] - 1)
       \o (IF exact THEN KeepSyntax(s, ms[k]) ELSE Rewritten(n, s, ms[k]))
       \o Rebuilt(exact, n, s, ms, k + 1, ms[k][2])

\* C5 as stated: structural preservation.  The step of every rule changes
\* nothing but the secrets of its matches: the key name, the whitespace, the
\* quotes and the comma or semicolon of each match, and all text outside the
\* matches, are in the buffer after the step as they were before it.
C5_OnlySecretChanges ==
  [][\A n \in 1..4 :
       pc = RulePc[n] =>
         content' = Rebuilt(TRUE, n, content, Matches(Pat(n), content, 1), 1, 1)]_vars

\* C5 as amended: rules 1 and 2 change nothing but the secret; rule 4 keeps
\* "const apiKey = ", the quotes and the semicolon and inserts the lookup;
\* rule 3 keeps the variable's name only (the whitespace around "=" and the
\* opening quote go); all text outside the matches is unchanged.
C5_StructurePreserved ==
  [][\A n \in 1..4 :
       pc = RulePc[n] =>
         content' = Rebuilt(FALSE, n, content, Matches(Pat(n), content, 1), 1, 1)]_vars

\* Rules 2, 3 and 4 have each replaced a match of one input.
C5_Witness ==
  /\ pc = "write"
  /\ \A n \in 2..4 : Matches(Pat(n), stdin, 1) # <<>>
  /\ ~HasChar(content, Secret)

\* "sk-ant-" and "sk-proj-" taken out of the quotes that end Head1 and Head2.
Emptied1 == SubSeq(Head1, 1, Len(Head1) - 7) \o Tail1

Emptied2 == SubSeq(Head2, 1, Len(Head2) - 8) \o Tail2

\* const apiKey = process.env.OPENAI_API_KEY || '';
Wanted4 == SubSeq(Head4, 1, Len(Head4) - 9) \o Lookup4 \o <<"'", "'", ";">>

\* C7: the documented result of rules 1, 2 and 4, for every indentation, body
\* and rest of line of the single-line inputs.
C7_DocumentedResult ==
  pc = "done" =>
    \A ind \in Indents, b \in Bodies, t \in Trails :
      /\ stdin = Line1(ind, b, t) => Out = ind \o Emptied1 \o t
      /\ stdin = Line2(ind, b, t) => Out = ind \o Emptied2 \o t
      /\ stdin = Line4(ind, b, t) => Out = ind \o Wanted4 \o t

\* An indented declaration of rule 4 has been rewritten, semicolon kept.
C7_Witness ==
  /\ pc = "done"
  /\ stdin = Line4(<<" ", " ">>, <<"Z", "9">>, <<"\n">>)
  /\ Out = <<" ", " ">> \o Wanted4 \o <<"\n">>

\* The rules p[1], p[2], ... applied to s in that order.
RECURSIVE InOrder(_, _, _)
InOrder(p, k, s) == IF k = 0 THEN s ELSE Rule(p[k], InOrder(p, k - 1, s))

\* The orders of the rules in S.
Orders(S) ==
  {p \in [1..Cardinality(S) -> S] : \A i, j \in 1..Cardinality(S) : p[i] = p[j] => i = j}

\* Two matches share a position.
Overlap(m1, m2) == m1[1] < m2[2] /\ m2[1] < m1[2]

\* C8 as stated: rule-order independence.  The four rules applied in any
\* order give the output of the order 1, 2, 3, 4.
C8_AnyOrder ==
  pc = "done" => \A p \in Orders(1..4) : InOrder(p, 4, stdin) = Out

\* C8 as amended: rules 1, 2 and 4 have no overlapping matches and give the
\* same text in any order, and rules 1 and 2 may change places in the
\* pipeline; the place of rule 3 is not free.
C8_OrderOfRules124 ==
  pc = "done" =>
    /\ \A p \in Orders({1, 2, 4}) : InOrder(p, 3, stdin) = Rule4(Rule2(Rule1(stdin)))
    /\ InOrder(<<2, 1, 3, 4>>, 4, stdin) = Out
    /\ \A n1, n2 \in {1, 2, 4} :
         n1 < n2 =>
           LET ms1 == Matches(Pat(n1), stdin, 1)
               ms2 == Matches(Pat(n2), stdin, 1)
           IN \A i \in 1..Len(ms1), j \in 1..Len(ms2) : ~Overlap(ms1[i], ms2[j])

\* An input in which rules 1, 2 and 4 each have a match, written out after
\* the pipeline.
C8_Witness ==
  /\ pc = "done"
  /\ \A n \in {1, 2, 4} : Matches(Pat(n), stdin, 1) # <<>>
  /\ InOrder(<<4, 2, 1>>, 3, stdin) = Out

====
